---------------------------- MODULE Spec2Model ----------------------------
(***************************************************************************)
(* Model of AssessmentApp.py: the trainer assessment dashboard.            *)
(*                                                                         *)
(* The assessment store (assessment_data.csv) is a sequence of rows, a row *)
(* is a function from column names to values.  The trainer roster          *)
(* (EVALUATOR_INPUT.csv) is a sequence of rows as well.  One browser       *)
(* session runs the script: every action below is one run of main().       *)
(* The variables trainer_id .. messages hold the locals of the most recent *)
(* run of evaluator_section, so that what a run computed can be stated.    *)
(*                                                                         *)
(* Strings of characters that the code takes apart (trainer identifiers)   *)
(* are sequences of one-character strings.  AVERAGE is kept in tenths      *)
(* (the widget's step is 0.1), so 75.0 is 750.                             *)
(***************************************************************************)
EXTENDS Integers, Sequences, FiniteSets, TLC

VARIABLES
    csv_exists,       \* os.path.exists(CSV_FILE)
    csv,              \* rows of assessment_data.csv
    roster,           \* rows of EVALUATOR_INPUT.csv
    session_state,    \* st.session_state: logged_in, role, logged_user
    df_main,          \* snapshot returned by load_data() in the last run
    trainer_id,       \* locals of the last run of evaluator_section
    evaluator_role,
    level_status,
    submissions,
    assessment_data,
    entry,
    messages,         \* st.error / st.warning / st.success shown by the run
    button,           \* the button whose press started the last run
    budget,           \* script runs left to explore
    page,             \* what main() showed in the last run
    evaluators,       \* rows of evaluators.csv (no file: no rows)
    pending           \* the run of a second session between its load_data()
                      \* and its to_csv()

vars == <<csv_exists, csv, roster, session_state, df_main, trainer_id,
          evaluator_role, level_status, submissions, assessment_data,
          entry, messages, button, budget, page, evaluators, pending>>

-----------------------------------------------------------------------------
(* Bounds of the exploration *)

MaxRuns == 3
MaxFreshRuns == 4
MaxFill == 4
MaxRoster == 1

-----------------------------------------------------------------------------
(* Program constants *)

L1MinCourses == 10
L1MinAverage == 750
L2MinCourses == 10
L2MinAverage == 800
L3MinCourses == 5
L3MinAverage == 900

CSV_COLUMNS ==
    {"Trainer ID", "TOTAL", "AVERAGE", "STATUS", "LEVEL #1", "LEVEL #2",
     "LEVEL #3", "Status of Score Card", "Evaluator Username",
     "Evaluator Role"}

levels == <<"LEVEL #1", "LEVEL #2", "LEVEL #3">>

EvaluatorRoles == {"Technical Evaluator", "School Operations Evaluator"}

-----------------------------------------------------------------------------
(* Values *)

\* a missing cell of a data frame: NaN in a numeric column, blank otherwise
NumericColumns == {"TOTAL", "AVERAGE"}
NaN == -1
Blank == ""
Missing(col) == IF col \in NumericColumns THEN NaN ELSE Blank

\* d.get(k, default)
Get(d, k, default) == IF k \in DOMAIN d THEN d[k] ELSE default

EmptyDict == [k \in {} |-> Blank]

\* the empty string of characters
EmptyStr == << >>

Range(s) == {s[i] : i \in 1..Len(s)}


None == "None"

-----------------------------------------------------------------------------
(* Character strings: trainer identifiers *)

TR00 == <<"T", "R", "0", "0">>

Digits == <<"0", "1", "2", "3", "4", "5", "6", "7", "8", "9">>

IsDigitChar(c) == \E d \in 1..Len(Digits) : Digits[d] = c

DigitValue(c) == (CHOOSE d \in 1..Len(Digits) : Digits[d] = c) - 1

\* str.startswith
StartsWith(s, prefix) ==
    /\ Len(s) >= Len(prefix)
    /\ SubSeq(s, 1, Len(prefix)) = prefix

\* str.replace(old, ""): every occurrence, scanning left to right
RECURSIVE RemoveAll(_, _)
RemoveAll(s, old) ==
    IF s = EmptyStr THEN EmptyStr
    ELSE IF StartsWith(s, old) THEN RemoveAll(SubSeq(s, Len(old) + 1, Len(s)), old)
    ELSE <<Head(s)>> \o RemoveAll(Tail(s), old)

\* str.isdigit: not empty and digits only
IsDigit(s) == s # EmptyStr /\ \A i \in 1..Len(s) : IsDigitChar(s[i])

\* int(s) of a string of digits
RECURSIVE ToInt(_)
ToInt(s) ==
    IF s = EmptyStr THEN 0
    ELSE 10 * ToInt(SubSeq(s, 1, Len(s) - 1)) + DigitValue(s[Len(s)])

\* str(n) of a natural number
RECURSIVE ToStr(_)
ToStr(n) ==
    IF n < 10 THEN <<Digits[n + 1]>>
    ELSE ToStr(n \div 10) \o <<Digits[(n % 10) + 1]>>

\* str.strip
RECURSIVE LStrip(_)
LStrip(s) == IF s # EmptyStr /\ Head(s) = " " THEN LStrip(Tail(s)) ELSE s

RECURSIVE RStrip(_)
RStrip(s) ==
    IF s # EmptyStr /\ s[Len(s)] = " " THEN RStrip(SubSeq(s, 1, Len(s) - 1)) ELSE s

Strip(s) == RStrip(LStrip(s))

Max(S) == CHOOSE m \in S : \A x \in S : x <= m

-----------------------------------------------------------------------------
(* Role strings: "technical" in s.lower(), "school" in s.lower() *)

lower(s) ==
    CASE s = "Technical Evaluator" -> "technical evaluator"
      [] s = "School Operations Evaluator" -> "school operations evaluator"
      [] OTHER -> s

Contains(s, sub) ==
    <<s, sub>> \in {<<"technical evaluator", "technical">>,
                    <<"school operations evaluator", "school">>}


-----------------------------------------------------------------------------
(* The two files *)

\* a data frame row over the columns cols, absent cells missing
Row(d, cols) ==
    IF DOMAIN d = cols THEN d ELSE [c \in cols |-> Get(d, c, Missing(c))]

\* a variant of FileAfterLoad: the file is written from the roster in every run
FileAfterLoadReseed(exists, file, ros) ==
    [i \in 1..Len(ros) |-> [c \in {"Trainer ID"} |-> ros[i][c]]]

\* load_data, lines 54-61: the file is created from the roster when absent
FileAfterLoad(exists, file, ros) ==
    IF exists THEN file
    ELSE [i \in 1..Len(ros) |-> [c \in {"Trainer ID"} |-> ros[i][c]]]

\* load_data, lines 63-66: absent columns are added, df[CSV_COLUMNS] is kept
load_data(exists, file, ros) ==
    LET df == FileAfterLoad(exists, file, ros)
    IN  [i \in 1..Len(df) |-> Row(df[i], CSV_COLUMNS)]

\* a variant of Concat: the latest record of the trainer is overwritten
ConcatUpsert(df, e) ==
    LET cols == CSV_COLUMNS \cup DOMAIN e
        mine == {i \in 1..Len(df) : df[i]["Trainer ID"] = e["Trainer ID"]}
    IN  IF mine = {}
        THEN [i \in 1..(Len(df) + 1) |->
                IF i <= Len(df) THEN Row(df[i], cols) ELSE Row(e, cols)]
        ELSE [i \in 1..Len(df) |->
                IF i = Max(mine) THEN Row(e, cols) ELSE Row(df[i], cols)]

\* pd.concat([df_main, pd.DataFrame([entry])]) written by to_csv
Concat(df, e) ==
    LET cols == CSV_COLUMNS \cup DOMAIN e
    IN  [i \in 1..(Len(df) + 1) |->
            IF i <= Len(df) THEN Row(df[i], cols) ELSE Row(e, cols)]

generate_new_trainer_id(ros) ==
    LET existing_ids == {ros[i]["Trainer ID"] : i \in 1..Len(ros)}
        numbers == {ToInt(RemoveAll(tid, TR00)) :
                      tid \in {t \in existing_ids :
                                 /\ StartsWith(t, TR00)
                                 /\ IsDigit(RemoveAll(t, TR00))}}
        next_number == IF numbers # {} THEN Max(numbers) + 1 ELSE 1
    IN  TR00 \o ToStr(next_number)

save_new_trainer_to_input(ros, tid, name, department) ==
    Append(ros, [c \in {"Trainer ID", "Trainer Name", "Department"} |->
                    CASE c = "Trainer ID" -> tid
                      [] c = "Trainer Name" -> name
                      [] c = "Department" -> department])

-----------------------------------------------------------------------------
(* evaluator_section: choice of the trainer, lines 179-231 *)

\* available_ids of the existing-trainer mode
available_ids(ros) == {ros[i]["Trainer ID"] : i \in 1..Len(ros)}

\* new-trainer mode: the identifier and the roster after lines 216-231
NewTrainer(ros, typed, name, department, email) ==
    IF Strip(typed) = EmptyStr /\ name # "" /\ department # "" /\ email # ""
    THEN [trainer_id |-> generate_new_trainer_id(ros),
          roster |-> save_new_trainer_to_input(
                         ros, generate_new_trainer_id(ros), name, department)]
    ELSE [trainer_id |-> typed, roster |-> ros]

-----------------------------------------------------------------------------
(* evaluator_section: joint status and submission counts, lines 233-256 *)

\* line 233 (an identifier is truthy when it is not empty)
past_assessments(df, tid) ==
    IF tid # EmptyStr
    THEN LET Mine(row) == row["Trainer ID"] = tid IN SelectSeq(df, Mine)
    ELSE << >>

\* line 245
level_rows(past, level) ==
    LET Marked(row) == row[level] = "QUALIFIED" IN SelectSeq(past, Marked)

has_tech(rows) ==
    \E i \in 1..Len(rows) : Contains(lower(rows[i]["Evaluator Role"]), "technical")

has_ops(rows) ==
    \E i \in 1..Len(rows) : Contains(lower(rows[i]["Evaluator Role"]), "school")

\* a variant of JointStatus: one of the two roles is enough
JointStatusEitherRole(rows) ==
    IF has_tech(rows) \/ has_ops(rows) THEN "QUALIFIED" ELSE "NOT QUALIFIED"

\* lines 249-252
JointStatus(rows) ==
    IF has_tech(rows) /\ has_ops(rows) THEN "QUALIFIED" ELSE "NOT QUALIFIED"

\* a variant of CountEvaluators: len(evaluators), the marks are counted
CountMarks(rows) == Len(rows)

\* line 253: len(set(evaluators))
CountEvaluators(rows) ==
    Cardinality({rows[i]["Evaluator Username"] : i \in 1..Len(rows)})

SubKey(level) ==
    CASE level = "LEVEL #1" -> "LEVEL #1_submissions"
      [] level = "LEVEL #2" -> "LEVEL #2_submissions"
      [] level = "LEVEL #3" -> "LEVEL #3_submissions"

\* Without a trainer identifier past_assessments is pd.DataFrame(), which has
\* no columns: past_assessments[level] raises KeyError for the first level,
\* the except of line 254 reports it and both dictionaries stay empty.
LevelLoopRaises(tid) == tid = EmptyStr

ComputeLevelStatus(tid, past) ==
    IF LevelLoopRaises(tid) THEN EmptyDict
    ELSE [level \in Range(levels) |-> JointStatus(level_rows(past, level))]

ComputeSubmissions(tid, past) ==
    IF LevelLoopRaises(tid) THEN EmptyDict
    ELSE [k \in {SubKey(level) : level \in Range(levels)} |->
            LET level == CHOOSE l \in Range(levels) : SubKey(l) = k
            IN  CountEvaluators(level_rows(past, level))]

-----------------------------------------------------------------------------
(* evaluator_section: the forms, lines 258-337 *)

\* a variant of FormOpen: the test of the level below is left out
FormOpenUngated(level, ls, sub) ==
    /\ ~(Get(ls, level, None) = "QUALIFIED" /\ Get(sub, SubKey(level), 0) >= 2)
    /\ ~(Get(ls, level, None) = "QUALIFIED" /\ Get(sub, SubKey(level), 0) = 1)

\* lines 261-267: the branch that shows the input form of a level
FormOpen(level, ls, sub) ==
    /\ ~(Get(ls, level, None) = "QUALIFIED" /\ Get(sub, SubKey(level), 0) >= 2)
    /\ ~(Get(ls, level, None) = "QUALIFIED" /\ Get(sub, SubKey(level), 0) = 1)
    /\ \/ level = "LEVEL #1"
       \/ level = "LEVEL #2" /\ Get(ls, "LEVEL #1", None) = "QUALIFIED"
       \/ level = "LEVEL #3" /\ Get(ls, "LEVEL #2", None) = "QUALIFIED"

OpenLevels(ls, sub) == {level \in Range(levels) : FormOpen(level, ls, sub)}

\* what the widgets of one form can return in a run that pressed Submit
\* Evaluation: the score-card selectbox has the single option "has not been
\* sent" there (send_report_enabled is false in this branch) and the SEND
\* SCORE CARD button is not the pressed one
Averages == {700, 950}
Totals == {55}
Referrals == {"", "Approved by manager"}

FormValues(level) ==
    [level_status : {"QUALIFIED", "NOT QUALIFIED"},
     manager_referral : IF level = "LEVEL #3" THEN Referrals ELSE {""},
     total : Totals,
     average : Averages,
     status_overall : {"CLEARED"},
     score_status : {"Score Cards has not been sent"}]

\* lines 325-334: assessment_data has a key for every level whose form is shown
AssessmentData(open) ==
    {ad \in [open -> FormValues("LEVEL #3")] :
        \A level \in open : ad[level] \in FormValues(level)}

-----------------------------------------------------------------------------
(* evaluator_section: Submit Evaluation, lines 339-393 *)

\* a variant of Rejected: the test of the identifier is left out
RejectedNever(tid) == FALSE

\* line 341
Rejected(tid) == tid = EmptyStr

\* a variant of WithLevel: a level without form data takes the first option
\* of every widget of the form instead of the defaults of lines 360-367
WithLevelFirstOptions(e, level, ad) ==
    LET has == level \in DOMAIN ad
        referral ==
            IF level = "LEVEL #3" /\ has /\ ad[level].manager_referral # ""
            THEN ("Manager Referral" :> ad[level].manager_referral)
            ELSE EmptyDict
    IN  ("TOTAL" :> IF has THEN ad[level].total ELSE 55)
        @@ ("AVERAGE" :> IF has THEN ad[level].average ELSE 950)
        @@ ("STATUS" :> IF has THEN ad[level].status_overall ELSE "CLEARED")
        @@ ("Status of Score Card" :>
               IF has THEN ad[level].score_status
               ELSE "Score Cards has been sent")
        @@ (level :> IF has THEN ad[level].level_status ELSE "QUALIFIED")
        @@ referral
        @@ e

\* lines 357-369, the body of the loop for one level
WithLevel(e, level, ad) ==
    LET has == level \in DOMAIN ad
        referral ==
            IF level = "LEVEL #3" /\ has /\ ad[level].manager_referral # ""
            THEN ("Manager Referral" :> ad[level].manager_referral)
            ELSE EmptyDict
    IN  ("TOTAL" :> IF has THEN ad[level].total ELSE 0)
        @@ ("AVERAGE" :> IF has THEN ad[level].average ELSE 0)
        @@ ("STATUS" :> IF has THEN ad[level].status_overall ELSE "REDO")
        @@ ("Status of Score Card" :>
               IF has THEN ad[level].score_status
               ELSE "Score Cards has not been sent")
        @@ (level :> IF has THEN ad[level].level_status ELSE "NOT QUALIFIED")
        @@ referral
        @@ e

\* a variant of BuildEntry: no break, and an unfilled level takes the first
\* option of the status widget
RECURSIVE BuildEntryNoBreakFrom(_, _, _, _, _)
BuildEntryNoBreakFrom(i, e, ls, sub, ad) ==
    IF i > Len(levels) THEN e
    ELSE LET level == levels[i]
             filled == WithLevel(e, level, ad)
             flag == IF level \in DOMAIN ad THEN filled[level] ELSE "QUALIFIED"
         IN  BuildEntryNoBreakFrom(i + 1, (level :> flag) @@ filled, ls, sub, ad)

BuildEntryNoBreak(tid, user, role, ls, sub, ad) ==
    BuildEntryNoBreakFrom(
        1,
        ("Trainer ID" :> tid) @@ ("Evaluator Username" :> user)
            @@ ("Evaluator Role" :> role),
        ls, sub, ad)

\* lines 356-369: the first level that is not closed is written, then break
RECURSIVE BuildEntryFrom(_, _, _, _, _)
BuildEntryFrom(i, e, ls, sub, ad) ==
    IF i > Len(levels) THEN e
    ELSE IF \/ Get(ls, levels[i], None) # "QUALIFIED"
            \/ Get(sub, SubKey(levels[i]), 0) < 2
         THEN WithLevel(e, levels[i], ad)
         ELSE BuildEntryFrom(i + 1, e, ls, sub, ad)

\* lines 345-369 (the columns the model keeps)
BuildEntry(tid, user, role, ls, sub, ad) ==
    BuildEntryFrom(
        1,
        ("Trainer ID" :> tid) @@ ("Evaluator Username" :> user)
            @@ ("Evaluator Role" :> role),
        ls, sub, ad)

\* a variant of Fails: the check does not look at the submission count
FailsWhateverCount(e, level, sub, courses_completed) ==
    /\ Get(e, level, None) = "QUALIFIED"
    /\ CASE level = "LEVEL #1" ->
               \/ courses_completed < L1MinCourses
               \/ Get(e, "AVERAGE", 0) < L1MinAverage
         [] level = "LEVEL #2" ->
               \/ courses_completed < L2MinCourses
               \/ Get(e, "AVERAGE", 0) < L2MinAverage
         [] level = "LEVEL #3" ->
               \/ courses_completed < L3MinCourses
               \/ Get(e, "AVERAGE", 0) < L3MinAverage
               \/ Get(e, "Manager Referral", "") = ""

\* lines 372-386: one of the three checks
Fails(e, level, sub, courses_completed) ==
    /\ Get(e, level, None) = "QUALIFIED"
    /\ Get(sub, SubKey(level), 0) >= 2
    /\ CASE level = "LEVEL #1" ->
               \/ courses_completed < L1MinCourses
               \/ Get(e, "AVERAGE", 0) < L1MinAverage
         [] level = "LEVEL #2" ->
               \/ courses_completed < L2MinCourses
               \/ Get(e, "AVERAGE", 0) < L2MinAverage
         [] level = "LEVEL #3" ->
               \/ courses_completed < L3MinCourses
               \/ Get(e, "AVERAGE", 0) < L3MinAverage
               \/ Get(e, "Manager Referral", "") = ""

\* lines 371-386: a check that fails downgrades the flag of its level
Enforce(e, sub, courses_completed) ==
    [c \in DOMAIN e |->
        IF c \in Range(levels) /\ Fails(e, c, sub, courses_completed)
        THEN "NOT QUALIFIED" ELSE e[c]]

Warning(level) ==
    CASE level = "LEVEL #1" -> "Level 1 requires 10 courses with at least 75% average."
      [] level = "LEVEL #2" -> "Level 2 requires 10 courses with at least 80% average."
      [] level = "LEVEL #3" -> "Level 3 requires 5 courses with 90% average + Manager Referral."

Warnings(e, sub, courses_completed) ==
    {Warning(level) : level \in {l \in Range(levels) : Fails(e, l, sub, courses_completed)}}


-----------------------------------------------------------------------------
(* Initial states *)

TR001 == <<"T", "R", "0", "0", "1">>

RosterRow(tid, name, department) ==
    [c \in {"Trainer ID", "Trainer Name", "Department"} |->
        CASE c = "Trainer ID" -> tid
          [] c = "Trainer Name" -> name
          [] c = "Department" -> department]

SeedRoster == <<RosterRow(TR001, "Asha", "STEM")>>

\* a stored record as an earlier submission wrote it: one level flag
StoredRow(tid, user, role, level, flag) ==
    Row(("Trainer ID" :> tid) @@ ("Evaluator Username" :> user)
            @@ ("Evaluator Role" :> role) @@ (level :> flag)
            @@ ("TOTAL" :> 55) @@ ("AVERAGE" :> 950) @@ ("STATUS" :> "CLEARED")
            @@ ("Status of Score Card" :> "Score Cards has not been sent"),
        CSV_COLUMNS)

\* the QUALIFIED records of one evaluator: levels 1..upto, one record each
MarksOf(tid, user, role, upto) ==
    [level \in 1..upto |-> StoredRow(tid, user, role, levels[level], "QUALIFIED")]

\* records that mark nothing QUALIFIED
Fill(tid, n) ==
    [i \in 1..n |->
        StoredRow(tid, "omotec1", "Technical Evaluator", "LEVEL #1", "NOT QUALIFIED")]

\* the stores a run can find: records of the account the application logs
\* evaluators in with (as a Technical Evaluator) and of one more evaluator
SeedStores ==
    {Fill(TR001, MaxFill)
        \o MarksOf(TR001, "omotec1", "Technical Evaluator", a)
        \o MarksOf(TR001, "eval2", role, b) :
        a \in 0..Len(levels), b \in 0..Len(levels), role \in EvaluatorRoles}

NoRun ==
    /\ df_main = << >>
    /\ trainer_id = EmptyStr
    /\ evaluator_role = ""
    /\ level_status = EmptyDict
    /\ submissions = EmptyDict
    /\ assessment_data = EmptyDict
    /\ entry = EmptyDict
    /\ messages = {}

\* a run that does not reach the forms leaves no locals
ResetRun ==
    /\ df_main' = << >>
    /\ trainer_id' = EmptyStr
    /\ evaluator_role' = ""
    /\ level_status' = EmptyDict
    /\ submissions' = EmptyDict
    /\ assessment_data' = EmptyDict
    /\ entry' = EmptyDict
    /\ messages' = {}

\* nothing shown yet, no evaluator accounts, no second session
NoPending == EmptyDict

InitOther ==
    /\ page = "login"
    /\ evaluators = << >>
    /\ pending = NoPending

\* no file yet, or a file without any QUALIFIED mark
InitFresh ==
    /\ roster \in {<< >>, SeedRoster}
    /\ \/ csv_exists = FALSE /\ csv = << >>
       \/ csv_exists = TRUE /\ csv = << >> /\ roster = SeedRoster
    /\ session_state = EmptyDict
    /\ button = ""
    /\ budget = MaxFreshRuns
    /\ NoRun
    /\ InitOther

Init ==
    /\ roster \in {<< >>, SeedRoster}
    /\ \/ csv_exists = FALSE /\ csv = << >>
       \/ csv_exists = TRUE /\ csv \in SeedStores
    /\ session_state = EmptyDict
    /\ button = ""
    /\ budget = MaxRuns
    /\ NoRun
    /\ InitOther


-----------------------------------------------------------------------------
(* login_ui and main *)

ValidPasswordOf(username) ==
    CASE username = "omotec" -> "omotec"
      [] username = "omotec1" -> "omotec123"
      [] username = "omotec2" -> "omotec@123#"

LoginRoles == {"Viewer", "Evaluator", "Super_Administrator"}
Usernames == {"omotec", "omotec1", "omotec2"}
Passwords == {"omotec", "omotec123", "omotec@123#"}

\* what is typed into the login form: every role with every account's name
\* and that account's password, or with a password of another account
LoginInputs ==
    {in \in [role : LoginRoles, username : Usernames, password : Passwords] :
        \/ ValidPasswordOf(in.username) = in.password
        \/ in.role = "Evaluator"}

\* role.replace("_", " ")
ReplaceUnderscore(role) ==
    IF role = "Super_Administrator" THEN "Super Administrator" ELSE role

\* a variant of ValidCredentials: the password is not looked at
ValidCredentialsAnyPassword(role, username, password) ==
    \/ role = "Viewer" /\ username = "omotec"
    \/ role = "Evaluator" /\ username = "omotec1"
    \/ role = "Super_Administrator" /\ username = "omotec2"

\* lines 38-43: the hexadecimal digest, one text per password
hash_password(password) ==
    CASE password = "pw1" -> "sha256(pw1)"
      [] password = "pw2" -> "sha256(pw2)"
      [] OTHER -> "sha256()"

\* a variant of ValidCredentials: an account of evaluators.csv whose stored
\* hash is the hash of the typed password is accepted as well
ValidCredentialsOrStored(role, username, password) ==
    \/ role = "Viewer" /\ username = "omotec" /\ password = "omotec"
    \/ role = "Evaluator" /\ username = "omotec1" /\ password = "omotec123"
    \/ role = "Super_Administrator" /\ username = "omotec2"
          /\ password = "omotec@123#"
    \/ \E i \in 1..Len(evaluators) :
          /\ evaluators[i]["username"] = username
          /\ evaluators[i]["password_hash"] = hash_password(password)

\* lines 792-794
ValidCredentials(role, username, password) ==
    \/ role = "Viewer" /\ username = "omotec" /\ password = "omotec"
    \/ role = "Evaluator" /\ username = "omotec1" /\ password = "omotec123"
    \/ role = "Super_Administrator" /\ username = "omotec2"
          /\ password = "omotec@123#"

\* line 815 and the guards of the sections
LoggedIn == Get(session_state, "logged_in", FALSE) = TRUE

\* main, lines 815-828: the part of the application a run shows
Dispatch(state) ==
    IF Get(state, "logged_in", FALSE) # TRUE THEN "login"
    ELSE CASE Get(state, "role", "") = "Evaluator" -> "evaluator"
           [] Get(state, "role", "") = "Viewer" -> "viewer"
           [] Get(state, "role", "") = "Super Administrator" -> "admin"
           [] OTHER -> "invalid"

\* The login button.  A successful login reruns the script: main() loads the
\* data (creating the file when it is absent) and shows the dashboard.
Login(role, username, password) ==
    /\ ~LoggedIn
    /\ button' = "Login"
    /\ budget > 0
    /\ budget' = budget - 1
    /\ IF ValidCredentials(role, username, password)
       THEN /\ session_state' =
                   ("logged_in" :> TRUE) @@ ("role" :> ReplaceUnderscore(role))
                       @@ ("logged_user" :> username) @@ session_state
            /\ csv_exists' = TRUE
            /\ csv' = FileAfterLoad(csv_exists, csv, roster)
            /\ messages' = {"Logged in successfully"}
       ELSE /\ messages' = {"Invalid Login Credentials"}
            /\ UNCHANGED <<session_state, csv_exists, csv>>
    /\ page' = Dispatch(session_state')
    /\ UNCHANGED <<roster, df_main, trainer_id, evaluator_role, level_status,
                   submissions, assessment_data, entry, evaluators, pending>>

\* a variant of Logout: logged_in is left in the session
LogoutKeepsLoggedIn ==
    /\ LoggedIn
    /\ button' = "Logout"
    /\ budget > 0
    /\ budget' = budget - 1
    /\ session_state' =
           [k \in DOMAIN session_state \ {"role", "logged_user"}
               |-> session_state[k]]
    /\ page' = Dispatch(session_state')
    /\ ResetRun
    /\ UNCHANGED <<csv_exists, csv, roster, evaluators, pending>>

\* The Logout button of a dashboard, then the rerun that shows the login form
Logout ==
    /\ LoggedIn
    /\ button' = "Logout"
    /\ budget > 0
    /\ budget' = budget - 1
    /\ session_state' =
           [k \in DOMAIN session_state \ {"logged_in", "role", "logged_user"}
               |-> session_state[k]]
    /\ page' = Dispatch(session_state')
    /\ ResetRun
    /\ UNCHANGED <<csv_exists, csv, roster, evaluators, pending>>

-----------------------------------------------------------------------------
(* evaluator_section *)

TypedIds == {EmptyStr, TR001}

NewTrainerFields ==
    {[name |-> "Ravi", department |-> "STEM", email |-> "ravi@example.org"],
     [name |-> "Ravi", department |-> "", email |-> ""]}

\* the trainer identifier a run works with and the roster it leaves
TrainerChoices(ros) ==
    {[trainer_id |-> t, roster |-> ros] : t \in available_ids(ros)}
    \cup {c \in {NewTrainer(ros, typed, f.name, f.department, f.email) :
                    typed \in TypedIds, f \in NewTrainerFields} :
            Len(c.roster) <= MaxRoster}

EvaluatorSession ==
    /\ LoggedIn
    /\ Get(session_state, "role", "") = "Evaluator"

\* what every run of evaluator_section does before the buttons are looked
\* at: df is the loaded snapshot, ls and sub the two dictionaries of the run
Dashboard(choice, role, df, ls, sub, ad) ==
    /\ csv_exists' = TRUE
    /\ roster' = choice.roster
    /\ df_main' = df
    /\ trainer_id' = choice.trainer_id
    /\ evaluator_role' = role
    /\ level_status' = ls
    /\ submissions' = sub
    /\ assessment_data' = ad

LevelMessages(tid) ==
    IF LevelLoopRaises(tid) THEN {"Failed to process assessment levels."} ELSE {}

\* a run in which no button is pressed (a widget was changed)
Render(choice, role, ad) ==
    /\ EvaluatorSession
    /\ button' = ""
    /\ budget > 0
    /\ budget' = budget - 1
    /\ \E df \in {load_data(csv_exists, csv, roster)} :
       \E past \in {past_assessments(df, choice.trainer_id)} :
          Dashboard(choice, role, df,
                    ComputeLevelStatus(choice.trainer_id, past),
                    ComputeSubmissions(choice.trainer_id, past), ad)
    /\ csv' = FileAfterLoad(csv_exists, csv, roster)
    /\ entry' = EmptyDict
    /\ messages' = LevelMessages(choice.trainer_id)
    /\ page' = Dispatch(session_state)
    /\ UNCHANGED <<session_state, evaluators, pending>>

\* existing-trainer mode without any trainer: the section returns at line 195
\* or 209, before the forms and the buttons
RenderNoTrainers ==
    /\ EvaluatorSession
    /\ button' = ""
    /\ available_ids(roster) = {}
    /\ budget > 0
    /\ budget' = budget - 1
    /\ csv_exists' = TRUE
    /\ csv' = FileAfterLoad(csv_exists, csv, roster)
    /\ ResetRun
    /\ page' = Dispatch(session_state)
    /\ UNCHANGED <<roster, session_state, evaluators, pending>>

\* the run in which Submit Evaluation is pressed; each \E below names a
\* local of the run and has one value
SubmitEvaluation(choice, role, ad) ==
    /\ EvaluatorSession
    /\ button' = "Submit Evaluation"
    /\ budget > 0
    /\ budget' = budget - 1
    /\ \E tid \in {choice.trainer_id} :
       \E df \in {load_data(csv_exists, csv, roster)} :
       \E past \in {past_assessments(df, tid)} :
       \E ls \in {ComputeLevelStatus(tid, past)} :
       \E sub \in {ComputeSubmissions(tid, past)} :
       \E built \in {BuildEntry(tid, Get(session_state, "logged_user", ""),
                                role, ls, sub, ad)} :
       \E saved \in {Enforce(built, sub, Len(past))} :
          /\ Dashboard(choice, role, df, ls, sub, ad)
          /\ IF Rejected(tid)
             THEN /\ csv' = FileAfterLoad(csv_exists, csv, roster)
                  /\ entry' = EmptyDict
                  /\ messages' =
                         LevelMessages(tid) \cup {"Trainer ID is required."}
             ELSE /\ entry' = saved
                  /\ csv' = Concat(df, saved)
                  /\ messages' = LevelMessages(tid)
                                   \cup Warnings(built, sub, Len(past))
                                   \cup {"Assessment Saved"}
    /\ page' = Dispatch(session_state)
    /\ UNCHANGED <<session_state, evaluators, pending>>

\* the forms a run can fill in for the trainer it chose
FormInputs(choice) ==
    LET past == past_assessments(load_data(csv_exists, csv, roster),
                                 choice.trainer_id)
    IN  AssessmentData(OpenLevels(ComputeLevelStatus(choice.trainer_id, past),
                                  ComputeSubmissions(choice.trainer_id, past)))

Next ==
    \/ \E in \in LoginInputs : Login(in.role, in.username, in.password)
    \/ Logout
    \/ \E choice \in TrainerChoices(roster), role \in EvaluatorRoles :
          \E ad \in FormInputs(choice) : SubmitEvaluation(choice, role, ad)

\* the runs that press no button as well
NextDashboard ==
    \/ Next
    \/ \E choice \in TrainerChoices(roster), role \in EvaluatorRoles :
          \E ad \in FormInputs(choice) : Render(choice, role, ad)
    \/ RenderNoTrainers

Spec == Init /\ [][Next]_vars

SpecFresh == InitFresh /\ [][Next]_vars

MaxDashboardRuns == 3

\* stores in which both evaluators have signed off the first a levels
DashboardStores ==
    {Fill(TR001, MaxFill)
        \o MarksOf(TR001, "omotec1", "Technical Evaluator", a)
        \o MarksOf(TR001, "eval2", "School Operations Evaluator", a) :
        a \in 0..Len(levels)}

InitDashboard ==
    /\ roster \in {<< >>, SeedRoster}
    /\ \/ csv_exists = FALSE /\ csv = << >>
       \/ csv_exists = TRUE /\ csv \in DashboardStores
    /\ session_state = EmptyDict
    /\ button = ""
    /\ budget = MaxDashboardRuns
    /\ NoRun
    /\ InitOther

\* the evaluator's session with the runs that press no button
SpecDashboard == InitDashboard /\ [][NextDashboard]_vars


-----------------------------------------------------------------------------
(* A second browser session.  Every session runs the script in a thread of *)
(* its own, so the run of one session can take place between the          *)
(* load_data() of line 817 and the to_csv() of line 389 of another one.    *)
(* The second session is an evaluator's (its user is the one login_ui      *)
(* admits); the variables of the run locals stay those of the first.       *)

MaxTwoRuns == 3

\* a variant of Snapshot: the file is read again when the record is written
SnapshotReloaded(run, exists, file, ros) == load_data(exists, file, ros)

\* line 388: the frame the new record is appended to is the df_main that
\* main() loaded when the run began
Snapshot(run, exists, file, ros) == run.df_main

\* the second session presses Submit Evaluation: its run loads the data and
\* builds its record (lines 817, 233-386)
SecondLoads(choice, role, ad) ==
    /\ pending = NoPending
    /\ csv_exists
    /\ ~Rejected(choice.trainer_id)
    /\ budget > 0
    /\ budget' = budget - 1
    /\ \E tid \in {choice.trainer_id} :
       \E df \in {load_data(csv_exists, csv, roster)} :
       \E past \in {past_assessments(df, tid)} :
       \E sub \in {ComputeSubmissions(tid, past)} :
          pending' =
              [df_main |-> df,
               entry |-> Enforce(BuildEntry(tid, "omotec1", role,
                                            ComputeLevelStatus(tid, past),
                                            sub, ad),
                                 sub, Len(past))]
    /\ roster' = choice.roster
    /\ UNCHANGED <<csv_exists, csv, session_state, df_main, trainer_id,
                   evaluator_role, level_status, submissions, assessment_data,
                   entry, messages, button, page, evaluators>>

\* the run of the second session reaches lines 388-389
SecondWrites ==
    /\ pending # NoPending
    /\ csv_exists' = TRUE
    /\ csv' = Concat(Snapshot(pending, csv_exists, csv, roster), pending.entry)
    /\ pending' = NoPending
    /\ UNCHANGED <<roster, session_state, df_main, trainer_id, evaluator_role,
                   level_status, submissions, assessment_data, entry,
                   messages, button, budget, page, evaluators>>

InitTwoSessions ==
    /\ roster = SeedRoster
    /\ csv_exists = TRUE
    /\ csv \in {store \in DashboardStores : Len(store) <= MaxFill + 2}
    /\ session_state = EmptyDict
    /\ button = ""
    /\ budget = MaxTwoRuns
    /\ NoRun
    /\ InitOther

\* both sessions work in existing-trainer mode
ExistingChoices(ros) ==
    {[trainer_id |-> t, roster |-> ros] : t \in available_ids(ros)}

NextTwoSessions ==
    \/ \E in \in LoginInputs : Login(in.role, in.username, in.password)
    \/ Logout
    \/ \E choice \in ExistingChoices(roster), role \in EvaluatorRoles :
          \E ad \in FormInputs(choice) : SubmitEvaluation(choice, role, ad)
    \/ \E choice \in ExistingChoices(roster), role \in EvaluatorRoles :
          \E ad \in FormInputs(choice) : SecondLoads(choice, role, ad)
    \/ SecondWrites

SpecTwoSessions == InitTwoSessions /\ [][NextTwoSessions]_vars

-----------------------------------------------------------------------------
(* The roster under the new-trainer mode.  EVALUATOR_INPUT.csv is seeded    *)
(* from outside the application, so its identifiers are whatever text the   *)
(* file holds; the application itself appends generated identifiers only.   *)

MaxRosterRuns == 3
MaxRosterLen == 3

TR002 == <<"T", "R", "0", "0", "2">>
TR009 == <<"T", "R", "0", "0", "9">>
X9 == <<"X", "9">>

\* rosters as they are seeded: none, well-formed identifiers, foreign ones
RosterSeeds ==
    {<< >>,
     SeedRoster,
     <<RosterRow(TR002, "Bala", "STEM"), RosterRow(TR001, "Asha", "STEM")>>,
     <<RosterRow(TR009, "Chitra", "Robotics")>>,
     <<RosterRow(X9, "Dev", "STEM")>>,
     <<RosterRow(TR001, "Asha", "STEM"), RosterRow(X9, "Dev", "STEM")>>,
     <<RosterRow(TR00 \o TR002, "Esha", "Robotics")>>}

InitRoster ==
    /\ roster \in RosterSeeds
    /\ csv_exists = FALSE
    /\ csv = << >>
    /\ session_state = EmptyDict
    /\ button = ""
    /\ budget = MaxRosterRuns
    /\ NoRun
    /\ InitOther

\* what is typed into the four text inputs of lines 216-219
TypedNewIds == {EmptyStr, <<" ">>, TR001}

TypedFields ==
    [name : {"", "Ravi"}, department : {"", "STEM"},
     email : {"", "ravi@example.org"}]

\* a run of the dashboard in new-trainer mode, no button pressed
NewTrainerRun(typed, f, role, ad) ==
    /\ Len(NewTrainer(roster, typed, f.name, f.department, f.email).roster)
          <= MaxRosterLen
    /\ Render(NewTrainer(roster, typed, f.name, f.department, f.email),
              role, ad)

NextRoster ==
    \/ \E in \in LoginInputs : Login(in.role, in.username, in.password)
    \/ Logout
    \/ \E typed \in TypedNewIds, f \in TypedFields, role \in EvaluatorRoles :
          \E ad \in FormInputs(
                        NewTrainer(roster, typed, f.name, f.department, f.email)) :
             NewTrainerRun(typed, f, role, ad)

SpecRoster == InitRoster /\ [][NextRoster]_vars

-----------------------------------------------------------------------------
(* evaluators.csv: read_csv types every column, to_csv writes the values   *)
(* back as text.  A typed value is a string: "int:7" is the integer 7,     *)
(* "float:7.0" the float 7.0, "nan" a missing cell.                        *)

MaxAdminRuns == 5

EVALUATOR_COLUMNS ==
    {"username", "password_hash", "full_name", "email", "role", "created_at"}

\* the texts of the model that read_csv parses as numbers
NumberText == {"7", "007", "7.0"}

\* a column of the file as read_csv returns it: integers when every cell is
\* an integer text, floats when they are numbers or empty, text otherwise;
\* an empty cell is missing
ReadColumn(cells) ==
    LET filled == {i \in 1..Len(cells) : cells[i] # ""}
        numeric == filled # {} /\ \A i \in filled : cells[i] \in NumberText
        integer == /\ numeric
                   /\ \A i \in 1..Len(cells) : cells[i] \in {"7", "007"}
    IN  [i \in 1..Len(cells) |->
            IF cells[i] = "" THEN "nan"
            ELSE IF integer THEN "int:7"
            ELSE IF numeric THEN "float:7.0"
            ELSE cells[i]]

\* to_csv of one value
FormatCell(value) ==
    CASE value = "nan" -> ""
      [] value = "int:7" -> "7"
      [] value = "float:7.0" -> "7.0"
      [] OTHER -> value

\* lines 128-142 (a file that does not exist is created without rows)
load_evaluators(file) ==
    LET column == [c \in EVALUATOR_COLUMNS |->
                     ReadColumn([j \in 1..Len(file) |-> file[j][c]])]
    IN  [i \in 1..Len(file) |-> [c \in EVALUATOR_COLUMNS |-> column[c][i]]]

\* lines 144-149
save_evaluators(df) ==
    [i \in 1..Len(df) |-> [c \in EVALUATOR_COLUMNS |-> FormatCell(df[i][c])]]

\* datetime.now().strftime(...) of the run that has b runs left
Now(b) ==
    CASE b = 1 -> "2026-01-01 10:00:09"
      [] b = 2 -> "2026-01-01 10:00:08"
      [] b = 3 -> "2026-01-01 10:00:07"
      [] b = 4 -> "2026-01-01 10:00:06"
      [] b = 5 -> "2026-01-01 10:00:05"
      [] b = 6 -> "2026-01-01 10:00:04"
      [] OTHER -> "2026-01-01 10:00:03"

-----------------------------------------------------------------------------
(* admin_section and viewer_section *)

AdminSession ==
    /\ LoggedIn
    /\ Get(session_state, "role", "") = "Super Administrator"

ViewerSession ==
    /\ LoggedIn
    /\ Get(session_state, "role", "") = "Viewer"

\* line 564
section == Get(session_state, "admin_section", "trainer_reports")

\* what every run of a logged-in session outside evaluator_section does:
\* main() loads the data, the run shows msgs
SectionRun(msgs) ==
    /\ budget > 0
    /\ budget' = budget - 1
    /\ page' = Dispatch(session_state)
    /\ csv_exists' = TRUE
    /\ csv' = FileAfterLoad(csv_exists, csv, roster)
    /\ df_main' = << >>
    /\ trainer_id' = EmptyStr
    /\ evaluator_role' = ""
    /\ level_status' = EmptyDict
    /\ submissions' = EmptyDict
    /\ assessment_data' = EmptyDict
    /\ entry' = EmptyDict
    /\ messages' = msgs
    /\ UNCHANGED <<roster, pending>>

\* a run of viewer_section: filters, reports and downloads write no file
ViewerRun ==
    /\ ViewerSession
    /\ button' = "View All Trainers"
    /\ SectionRun({})
    /\ UNCHANGED <<session_state, evaluators>>

AdminSections ==
    {"add_evaluator", "existing_evaluators", "edit_evaluator",
     "delete_evaluator"}

\* lines 554-562: one of the four buttons; "Back to Main", lines 603-655
AdminOpen(name) ==
    /\ AdminSession
    /\ button' = name
    /\ session_state' = ("admin_section" :> name) @@ session_state
    /\ SectionRun({})
    /\ UNCHANGED evaluators

BackToMain ==
    /\ AdminSession
    /\ section \in AdminSections \ {"add_evaluator"}
    /\ button' = "Back to Main"
    /\ session_state' = ("admin_section" :> "trainer_reports") @@ session_state
    /\ SectionRun({})
    /\ UNCHANGED evaluators

\* the usernames of a loaded frame
usernames(df) == {df[i]["username"] : i \in 1..Len(df)}

\* lines 576-593: the record of the new account
new_entry(new_username, new_password, full_name, email, role_select, now) ==
    [c \in EVALUATOR_COLUMNS |->
        CASE c = "username" -> new_username
          [] c = "password_hash" -> hash_password(new_password)
          [] c = "full_name" -> full_name
          [] c = "email" -> email
          [] c = "role" -> role_select
          [] c = "created_at" -> now]

\* lines 577-580: the two tests that refuse an account
AddRefused(new_username, new_password, df) ==
    IF new_username = "" \/ new_password = ""
    THEN "Username and password are required."
    ELSE IF new_username \in usernames(df)
    THEN "Username already exists."
    ELSE ""

\* the form of lines 568-597
AddEvaluator(new_username, new_password, full_name, email, role_select) ==
    /\ AdminSession
    /\ section = "add_evaluator"
    /\ button' = "Add Evaluator"
    /\ \E df \in {load_evaluators(evaluators)} :
       \E refused \in {AddRefused(new_username, new_password, df)} :
          IF refused # ""
          THEN /\ SectionRun({refused})
               /\ UNCHANGED <<session_state, evaluators>>
          ELSE /\ evaluators' =
                      save_evaluators(
                          Append(df, new_entry(new_username, new_password,
                                               full_name, email, role_select,
                                               Now(budget))))
               /\ session_state' =
                      ("admin_section" :> "trainer_reports") @@ session_state
               /\ SectionRun({"Evaluator added."})

AccountRoles == {"Evaluator", "Viewer", "Super Administrator"}

\* a variant of EditRow: the password hash is written whatever the checkbox
EditRowRehash(row, edit_full_name, edit_email, edit_role, change_password, new_pass) ==
    [row EXCEPT !["full_name"] = edit_full_name,
                !["email"] = edit_email,
                !["role"] = edit_role,
                !["password_hash"] = hash_password(new_pass)]

\* lines 628-633
EditRow(row, edit_full_name, edit_email, edit_role, change_password, new_pass) ==
    [row EXCEPT !["full_name"] = edit_full_name,
                !["email"] = edit_email,
                !["role"] = edit_role,
                !["password_hash"] =
                    IF change_password /\ new_pass # ""
                    THEN hash_password(new_pass) ELSE @]

\* line 627: the first row with the username
idx(df, selected_eval) ==
    CHOOSE i \in 1..Len(df) :
        /\ df[i]["username"] = selected_eval
        /\ \A j \in 1..(i - 1) : df[j]["username"] # selected_eval

\* a column read_csv typed as float because all of its cells are missing:
\* writing a text into it with .at is an upcast that pandas either does or
\* refuses with TypeError, depending on its version
AllMissing(df, c) == \A i \in 1..Len(df) : df[i][c] = "nan"

\* the form of lines 611-638; line 621 raises ValueError for a role that is
\* not one of the three
EditEvaluator(selected_eval, edit_full_name, edit_email, edit_role, change_password, new_pass) ==
    /\ AdminSession
    /\ section = "edit_evaluator"
    /\ button' = "Save Changes"
    /\ selected_eval # ""
    /\ \E df \in {load_evaluators(evaluators)} :
          /\ selected_eval \in usernames(df)
          /\ df[idx(df, selected_eval)]["role"] \in AccountRoles
          /\ \E raises \in
                 IF \E c \in {"full_name", "email"} : AllMissing(df, c)
                 THEN BOOLEAN ELSE {FALSE} :
                IF raises
                THEN /\ SectionRun({"Failed to edit evaluator."})
                     /\ UNCHANGED evaluators
                ELSE /\ evaluators' =
                            save_evaluators(
                                [df EXCEPT ![idx(df, selected_eval)] =
                                    EditRow(@, edit_full_name, edit_email,
                                            edit_role, change_password,
                                            new_pass)])
                     /\ SectionRun({"Evaluator updated."})
    /\ UNCHANGED session_state

\* line 648
Remaining(df, selected_eval) ==
    LET Other(row) == row["username"] # selected_eval IN SelectSeq(df, Other)

\* lines 644-652
DeleteEvaluator(selected_eval) ==
    /\ AdminSession
    /\ section = "delete_evaluator"
    /\ button' = "Confirm Delete Evaluator"
    /\ selected_eval # ""
    /\ \E df \in {load_evaluators(evaluators)} :
          /\ selected_eval \in usernames(df)
          /\ evaluators' = save_evaluators(Remaining(df, selected_eval))
    /\ SectionRun({"Evaluator deleted."})
    /\ UNCHANGED session_state

-----------------------------------------------------------------------------
(* The three roles at work: logins with any typed name and password, the   *)
(* viewer, the administrator and the evaluator accounts                    *)

\* an account as the Add Evaluator form wrote it at an earlier time
Account(username, full_name, email, role) ==
    [c \in EVALUATOR_COLUMNS |->
        CASE c = "username" -> username
          [] c = "password_hash" -> hash_password("pw1")
          [] c = "full_name" -> full_name
          [] c = "email" -> email
          [] c = "role" -> role
          [] c = "created_at" -> "2025-12-31 09:00:00"]

AccountStores ==
    {<< >>,
     <<Account("ann", "Ann A", "", "Evaluator")>>,
     <<Account("ann", "Ann A", "", "Evaluator"),
       Account("bob", "", "bob@example.org", "Viewer")>>,
     <<Account("007", "James", "", "Evaluator")>>}

InitAdmin ==
    /\ roster = SeedRoster
    /\ csv_exists = FALSE
    /\ csv = << >>
    /\ session_state = EmptyDict
    /\ button = ""
    /\ budget = MaxAdminRuns
    /\ NoRun
    /\ page = "login"
    /\ evaluators \in AccountStores
    /\ pending = NoPending

\* what can be typed into the login form: the three built-in accounts, an
\* account of evaluators.csv and nothing at all
TypedLogins ==
    [role : LoginRoles,
     username : Usernames \cup {"", "ann"},
     password : Passwords \cup {"", "pw1"}]

\* the fields of the Add Evaluator form
AddInputs ==
    [new_username : {"", "ann", "007"}, new_password : {"", "pw1"},
     full_name : {"Ann A"}, email : {""}, role_select : {"Evaluator", "Viewer"}]

\* the fields of the Edit Evaluator form; new_pass stays "" when the box is
\* not ticked (line 623)
EditInputs ==
    {in \in [edit_full_name : {"Ann A", "Ann B"},
             edit_email : {"ann@example.org"},
             edit_role : {"Evaluator", "Super Administrator"},
             change_password : BOOLEAN, new_pass : {"", "pw2"}] :
        ~in.change_password => in.new_pass = ""}

NextAdmin ==
    \/ \E in \in TypedLogins : Login(in.role, in.username, in.password)
    \/ Logout
    \/ ViewerRun
    \/ \E name \in AdminSections : AdminOpen(name)
    \/ BackToMain
    \/ \E in \in AddInputs :
          AddEvaluator(in.new_username, in.new_password, in.full_name,
                       in.email, in.role_select)
    \/ \E selected_eval \in usernames(load_evaluators(evaluators)) :
       \E in \in EditInputs :
          EditEvaluator(selected_eval, in.edit_full_name, in.edit_email,
                        in.edit_role, in.change_password, in.new_pass)
    \/ \E selected_eval \in usernames(load_evaluators(evaluators)) :
          DeleteEvaluator(selected_eval)
    \/ \E choice \in TrainerChoices(roster), role \in EvaluatorRoles :
          \E ad \in FormInputs(choice) : Render(choice, role, ad)

SpecAdmin == InitAdmin /\ [][NextAdmin]_vars

-----------------------------------------------------------------------------
(* Sessions that log in, work on one of the three dashboards, log out and   *)
(* come back                                                                *)

MaxSessionRuns == 5

InitSessions ==
    /\ roster = SeedRoster
    /\ csv_exists = FALSE
    /\ csv = << >>
    /\ session_state = EmptyDict
    /\ button = ""
    /\ budget = MaxSessionRuns
    /\ NoRun
    /\ page = "login"
    /\ evaluators \in AccountStores
    /\ pending = NoPending

NextSessions ==
    \/ \E in \in LoginInputs : Login(in.role, in.username, in.password)
    \/ Logout
    \/ ViewerRun
    \/ \E name \in AdminSections : AdminOpen(name)
    \/ \E selected_eval \in usernames(load_evaluators(evaluators)) :
          DeleteEvaluator(selected_eval)
    \/ \E choice \in ExistingChoices(roster), role \in EvaluatorRoles :
          \E ad \in FormInputs(choice) : SubmitEvaluation(choice, role, ad)

SpecSessions == InitSessions /\ [][NextSessions]_vars

-----------------------------------------------------------------------------
(* What the claims speak of *)

\* the last run reached the forms of evaluator_section
FormsShown == evaluator_role # ""

\* the last run pressed Submit Evaluation
SubmitPressed == button = "Submit Evaluation"

\* the last run wrote a record
Saved == SubmitPressed /\ "Assessment Saved" \in messages

\* the records of trainer tid in the rows df that mark level as QUALIFIED
QualifiedMarks(df, tid, level) ==
    {i \in 1..Len(df) :
        df[i]["Trainer ID"] = tid /\ df[i][level] = "QUALIFIED"}

\* both roles have signed the level off
SignedOffByBoth(df, tid, level) ==
    /\ \E i \in QualifiedMarks(df, tid, level) :
          df[i]["Evaluator Role"] = "Technical Evaluator"
    /\ \E i \in QualifiedMarks(df, tid, level) :
          df[i]["Evaluator Role"] = "School Operations Evaluator"

\* the store as load_data reads it
StoredRecords == [i \in 1..Len(csv) |-> Row(csv[i], CSV_COLUMNS)]

\* the number of historical records of the trainer of the last run
HistoricalRecords ==
    Cardinality({i \in 1..Len(df_main) : df_main[i]["Trainer ID"] = trainer_id})

MinCourses(level) ==
    CASE level = "LEVEL #1" -> L1MinCourses
      [] level = "LEVEL #2" -> L2MinCourses
      [] level = "LEVEL #3" -> L3MinCourses

MinAverage(level) ==
    CASE level = "LEVEL #1" -> L1MinAverage
      [] level = "LEVEL #2" -> L2MinAverage
      [] level = "LEVEL #3" -> L3MinAverage

\* the flag of level was submitted as QUALIFIED and the record carries it
SubmittedQualified(level) ==
    /\ Saved
    /\ level \in DOMAIN assessment_data
    /\ assessment_data[level].level_status = "QUALIFIED"
    /\ level \in DOMAIN entry

-----------------------------------------------------------------------------
(* C1: for the trainer of a run and every level, the joint status the run
   computes is QUALIFIED exactly when the trainer's stored records that mark
   the level QUALIFIED include one of a Technical Evaluator and one of a
   School Operations Evaluator. *)
C1_JointStatusIffBothRoles ==
    (FormsShown /\ trainer_id # EmptyStr) =>
        \A level \in Range(levels) :
            (level_status[level] = "QUALIFIED")
                <=> SignedOffByBoth(df_main, trainer_id, level)

\* level 1 signed off by both roles, level 2 marked by Technical Evaluators only
C1_Witness ==
    /\ FormsShown
    /\ trainer_id # EmptyStr
    /\ level_status["LEVEL #1"] = "QUALIFIED"
    /\ level_status["LEVEL #2"] = "NOT QUALIFIED"
    /\ QualifiedMarks(df_main, trainer_id, "LEVEL #2") # {}
    /\ \A i \in QualifiedMarks(df_main, trainer_id, "LEVEL #2") :
          df_main[i]["Evaluator Role"] = "Technical Evaluator"

(* C2: the form of level 2 is open only when the joint status of level 1 is
   QUALIFIED, the form of level 3 only when that of level 2 is. *)
C2_FormsGated ==
    FormsShown =>
        /\ "LEVEL #2" \in DOMAIN assessment_data
              => Get(level_status, "LEVEL #1", None) = "QUALIFIED"
        /\ "LEVEL #3" \in DOMAIN assessment_data
              => Get(level_status, "LEVEL #2", None) = "QUALIFIED"

\* a submission made with the form of level 3 open
C2_Witness ==
    /\ SubmitPressed
    /\ "LEVEL #3" \in DOMAIN assessment_data

(* C3: a level flag submitted as QUALIFIED is stored as NOT QUALIFIED whenever
   the trainer has fewer historical records than the minimum of the level or
   the submitted AVERAGE is below the minimum of the level. *)
C3_ThresholdsDowngrade ==
    \A level \in Range(levels) :
        (/\ SubmittedQualified(level)
         /\ \/ HistoricalRecords < MinCourses(level)
            \/ assessment_data[level].average < MinAverage(level))
            => csv[Len(csv)][level] = "NOT QUALIFIED"

(* C4: level 3 submitted as QUALIFIED with an empty manager referral is stored
   as NOT QUALIFIED, also when the record count and the average pass. *)
C4_ReferralRequired ==
    (/\ SubmittedQualified("LEVEL #3")
     /\ assessment_data["LEVEL #3"].manager_referral = "")
        => csv[Len(csv)]["LEVEL #3"] = "NOT QUALIFIED"

(* C5: Submit Evaluation with an empty trainer identifier is rejected: the
   error is reported, no record is built and the store is as it was. *)
C5_EmptyIdRejected ==
    [][(SubmitPressed' /\ trainer_id' = EmptyStr) =>
          /\ "Trainer ID is required." \in messages'
          /\ "Assessment Saved" \notin messages'
          /\ entry' = EmptyDict
          /\ csv' = csv]_vars

\* a submission without a trainer identifier
C5_Witness ==
    /\ SubmitPressed
    /\ trainer_id = EmptyStr
    /\ "Trainer ID is required." \in messages

(* C6: a Submit Evaluation with a trainer identifier appends exactly one
   record, the one the run built, also when a flag was downgraded and when
   the trainer is not in the roster; one without an identifier appends none. *)
C6_OneRecordPerSubmission ==
    [][SubmitPressed' =>
          IF trainer_id' # EmptyStr
          THEN /\ Len(csv') = Len(csv) + 1
               /\ csv'[Len(csv')] = Row(entry', DOMAIN csv'[Len(csv')])
               /\ entry'["Trainer ID"] = trainer_id'
          ELSE Len(csv') = Len(csv)]_vars

\* the record of a trainer the roster does not have, its flag downgraded
C6_Witness ==
    /\ Saved
    /\ trainer_id \notin available_ids(roster)
    /\ assessment_data["LEVEL #1"].level_status = "QUALIFIED"
    /\ entry["LEVEL #1"] = "NOT QUALIFIED"
    /\ Warning("LEVEL #1") \in messages

(* C7: a Submit Evaluation leaves every record of the store where it was and
   every one of its fields, Manager Referral included, as it was. *)
C7_RecordsImmutable ==
    [][SubmitPressed' =>
          /\ Len(csv') >= Len(csv)
          /\ \A i \in 1..Len(csv) : \A c \in DOMAIN csv[i] :
                c \in DOMAIN csv'[i] /\ csv'[i][c] = csv[i][c]]_vars

(* C8: for the trainer of a run and every level, the submission count the run
   computes is the number of distinct evaluator usernames among the trainer's
   stored records that mark the level QUALIFIED. *)
C8_CountIsDistinctUsernames ==
    (FormsShown /\ trainer_id # EmptyStr) =>
        \A level \in Range(levels) :
            submissions[SubKey(level)] =
                Cardinality({df_main[i]["Evaluator Username"] :
                               i \in QualifiedMarks(df_main, trainer_id, level)})

\* two evaluators of the two roles: count 2 and QUALIFIED; and a level that
\* one evaluator marked more than once
C8_Witness ==
    /\ FormsShown
    /\ trainer_id # EmptyStr
    /\ submissions["LEVEL #1_submissions"] = 2
    /\ level_status["LEVEL #1"] = "QUALIFIED"
    /\ Cardinality(QualifiedMarks(df_main, trainer_id, "LEVEL #1")) > 2

(* C9: for a trainer without historical records, and when no trainer
   identifier is chosen, the run computes NOT QUALIFIED and count 0 for each
   of the three levels. *)
C9_NoRecordsNotQualified ==
    (FormsShown /\ HistoricalRecords = 0) =>
        \A level \in Range(levels) :
            /\ level \in DOMAIN level_status
            /\ level_status[level] = "NOT QUALIFIED"
            /\ SubKey(level) \in DOMAIN submissions
            /\ submissions[SubKey(level)] = 0

(* C10: from a store without QUALIFIED marks, every record that marks level 2
   (level 3) QUALIFIED was written when the records before it had level 1
   (level 2) signed off by both roles, and in every state a trainer's level 2
   (level 3) is signed off by both roles only if level 1 (level 2) is. *)
C10_LevelsInOrder ==
    \A k \in 1..(Len(levels) - 1) :
        /\ \A i \in 1..Len(csv) :
              StoredRecords[i][levels[k + 1]] = "QUALIFIED"
                  => SignedOffByBoth(SubSeq(StoredRecords, 1, i - 1),
                                     StoredRecords[i]["Trainer ID"], levels[k])
        /\ \A i \in 1..Len(csv) :
              SignedOffByBoth(StoredRecords, StoredRecords[i]["Trainer ID"],
                              levels[k + 1])
                  => SignedOffByBoth(StoredRecords,
                                     StoredRecords[i]["Trainer ID"], levels[k])

\* level 1 is signed off by both roles and the form of level 2 was submitted
\* as QUALIFIED
C10_Witness ==
    /\ Saved
    /\ SignedOffByBoth(df_main, trainer_id, "LEVEL #1")
    /\ "LEVEL #2" \in DOMAIN assessment_data
    /\ assessment_data["LEVEL #2"].level_status = "QUALIFIED"

-----------------------------------------------------------------------------
\* the three credentials the application accepts
FixedTriples ==
    {<<"Viewer", "omotec", "omotec">>,
     <<"Evaluator", "omotec1", "omotec123">>,
     <<"Super_Administrator", "omotec2", "omotec@123#">>}

\* the role and the user of the session after a login with a fixed triple
FixedSessions ==
    {<<"Viewer", "omotec">>, <<"Evaluator", "omotec1">>,
     <<"Super Administrator", "omotec2">>}

SessionRole == Get(session_state, "role", "")
SessionUser == Get(session_state, "logged_user", "")

(* C11: a session becomes logged in only by a login with one of the three
   fixed triples, a logged-in session has the role and the user of one of
   them, main shows the evaluator, viewer or admin section only to a
   logged-in session of that role, and a login with another triple leaves
   the session not logged in. *)
C11_LoginOnlyFixedTriples ==
    [][/\ LoggedIn' => <<SessionRole', SessionUser'>> \in FixedSessions
       /\ page' = "evaluator" => LoggedIn' /\ SessionRole' = "Evaluator"
       /\ page' = "viewer" => LoggedIn' /\ SessionRole' = "Viewer"
       /\ page' = "admin" => LoggedIn' /\ SessionRole' = "Super Administrator"
       /\ (~LoggedIn /\ LoggedIn')
             => \E t \in FixedTriples : Login(t[1], t[2], t[3])
       /\ button' = "Login" => \A in \in TypedLogins :
             (/\ <<in.role, in.username, in.password>> \notin FixedTriples
              /\ Login(in.role, in.username, in.password))
                 => ~LoggedIn' /\ page' = "login"]_vars

\* the administrator has just logged in and sees the admin section
C11_Witness ==
    /\ button = "Login"
    /\ LoggedIn
    /\ SessionUser = "omotec2"
    /\ page = "admin"

\* the accounts as the application reads them
Accounts == load_evaluators(evaluators)

\* the usernames as they are written in the file
StoredUsernameTexts == {evaluators[i]["username"] : i \in 1..Len(evaluators)}

(* C12: the usernames of the evaluator accounts stay pairwise distinct
   through Add, Edit and Delete Evaluator, and Add with a username that is in
   the store, or with an empty username or password, leaves the store
   unchanged. *)
C12_UsernamesStayDistinct ==
    [][/\ \A i, j \in 1..Len(evaluators') :
             i # j => load_evaluators(evaluators')[i]["username"]
                         # load_evaluators(evaluators')[j]["username"]
       /\ button' = "Add Evaluator" => \A in \in AddInputs :
             (/\ \/ in.new_username \in StoredUsernameTexts
                 \/ in.new_username = ""
                 \/ in.new_password = ""
              /\ AddEvaluator(in.new_username, in.new_password, in.full_name,
                              in.email, in.role_select))
                 => evaluators' = evaluators]_vars

(* C13: Edit Evaluator changes the full name, email and role of the selected
   account only, and its password hash only when Change Password is ticked
   and the new password is not empty; its username and creation timestamp
   and all other accounts stay as they were. *)
C13_EditFrame ==
    [][button' = "Save Changes" =>
       \A selected_eval \in usernames(Accounts) : \A in \in EditInputs :
          EditEvaluator(selected_eval, in.edit_full_name, in.edit_email,
                        in.edit_role, in.change_password, in.new_pass)
             => LET before == Accounts
                    after == load_evaluators(evaluators')
                    k == idx(before, selected_eval)
                IN  /\ Len(after) = Len(before)
                    /\ \A i \in 1..Len(before) : i # k => after[i] = before[i]
                    /\ after[k]["username"] = before[k]["username"]
                    /\ after[k]["created_at"] = before[k]["created_at"]
                    /\ after[k]["password_hash"] # before[k]["password_hash"]
                          => /\ in.change_password
                             /\ in.new_pass # ""
                             /\ after[k]["password_hash"]
                                   = hash_password(in.new_pass)]_vars

\* the first of two accounts was edited: new name, same password
C13_Witness ==
    /\ button = "Save Changes"
    /\ "Evaluator updated." \in messages
    /\ Len(evaluators) = 2
    /\ evaluators[1]["full_name"] = "Ann B"
    /\ evaluators[1]["password_hash"] = hash_password("pw1")
    /\ evaluators[2]["username"] = "bob"

-----------------------------------------------------------------------------
(* C14 as stated: a run that does not press Submit Evaluation leaves the rows
   of assessment_data.csv as they were. *)
C14_OnlySubmitChangesRecords ==
    [][button' # "Submit Evaluation" => csv' = csv]_vars

(* C14, amended: the joint status and the counts of a run are a function of
   the snapshot it loaded and of the trainer; a run that does not press
   Submit Evaluation leaves the rows of an existing assessment_data.csv as
   they were, and when the file does not exist a run of a logged-in session
   creates it with the rows of the roster. *)
C14_PureRender ==
    [][/\ FormsShown' =>
             /\ level_status' =
                    ComputeLevelStatus(trainer_id',
                        past_assessments(df_main', trainer_id'))
             /\ submissions' =
                    ComputeSubmissions(trainer_id',
                        past_assessments(df_main', trainer_id'))
       /\ button' # "Submit Evaluation" =>
             IF csv_exists \/ ~csv_exists' THEN csv' = csv
             ELSE /\ Len(csv') = Len(roster)
                  /\ \A i \in 1..Len(roster) :
                        csv'[i]["Trainer ID"] = roster[i]["Trainer ID"]]_vars

\* a run without a button over a store with QUALIFIED marks of both roles
C14_Witness ==
    /\ button = ""
    /\ FormsShown
    /\ trainer_id # EmptyStr
    /\ level_status["LEVEL #1"] = "QUALIFIED"
    /\ Len(csv) > MaxFill

-----------------------------------------------------------------------------
\* the second session's run has just written the file
SecondWrote == pending # NoPending /\ pending' = NoPending

(* C15: the write of a session is the snapshot its run loaded plus its one
   record, whatever was written since: a record another session appended
   after the snapshot was taken is not in the file after the write. *)
C15_LastWriteWins ==
    [][SecondWrote =>
          /\ Len(csv') = Len(pending.df_main) + 1
          /\ \A i \in 1..Len(pending.df_main) :
                \A c \in CSV_COLUMNS : csv'[i][c] = pending.df_main[i][c]
          /\ \A c \in DOMAIN pending.entry :
                csv'[Len(csv')][c] = pending.entry[c]
          /\ Len(csv) > Len(pending.df_main) => Len(csv') <= Len(csv)]_vars

\* the first session saved a record and the file no longer has it: both
\* sessions loaded the same rows, the second wrote last
C15_Witness ==
    /\ Saved
    /\ pending = NoPending
    /\ Len(csv) = Len(df_main) + 1
    /\ \E c \in DOMAIN entry : csv[Len(csv)][c] # entry[c]

-----------------------------------------------------------------------------
\* the levels whose flag the record of the last run carries
FlagsWritten == {level \in Range(levels) : level \in DOMAIN entry}

\* the record of the last run, as the file holds it
LastStored == csv[Len(csv)]

\* the usernames that marked the level QUALIFIED for the trainer of the last
\* run, in the records the run loaded
MarkingUsernames(level) ==
    {df_main[i]["Evaluator Username"] :
        i \in QualifiedMarks(df_main, trainer_id, level)}

\* before the submission the level was signed off by both roles, with marks
\* of two usernames at least
ClosedBefore(level) ==
    /\ SignedOffByBoth(df_main, trainer_id, level)
    /\ Cardinality(MarkingUsernames(level)) >= 2

\* the first level in the order 1, 2, 3 that was not closed, if there is one
FirstUnclosed ==
    {levels[k] : k \in {k \in 1..Len(levels) :
                            /\ ~ClosedBefore(levels[k])
                            /\ \A j \in 1..(k - 1) : ClosedBefore(levels[j])}}

(* C16: when Submit is to record a level for which the run collected no form
   data, the submission is accepted all the same and the record it appends
   carries the defaults: the flag NOT QUALIFIED, TOTAL 0, AVERAGE 0.0,
   STATUS REDO and the score-card status 'Score Cards has not been sent'. *)
C16_DefaultsWithoutForm ==
    \A level \in FirstUnclosed :
        /\ SubmitPressed
        /\ trainer_id # EmptyStr
        /\ level \notin DOMAIN assessment_data
        => /\ Saved
           /\ Len(csv) = Len(df_main) + 1
           /\ level \in FlagsWritten
           /\ LastStored["Trainer ID"] = trainer_id
           /\ LastStored[level] = "NOT QUALIFIED"
           /\ LastStored["TOTAL"] = 0
           /\ LastStored["AVERAGE"] = 0
           /\ LastStored["STATUS"] = "REDO"
           /\ LastStored["Status of Score Card"]
                 = "Score Cards has not been sent"

\* LEVEL #1 awaits its second evaluator, so its form is not offered, and the
\* run records it while the form of LEVEL #2 was filled in
C16_Witness ==
    /\ Saved
    /\ "LEVEL #1" \in FlagsWritten
    /\ "LEVEL #1" \notin DOMAIN assessment_data
    /\ "LEVEL #2" \in DOMAIN assessment_data
    /\ LastStored["LEVEL #1"] = "NOT QUALIFIED"

-----------------------------------------------------------------------------
\* an identifier of the form TR00<digits>
WellFormed(tid) ==
    /\ StartsWith(tid, TR00)
    /\ IsDigit(SubSeq(tid, Len(TR00) + 1, Len(tid)))

\* the numbers of the well-formed identifiers of a roster
RosterNumbers(ros) ==
    {ToInt(SubSeq(tid, Len(TR00) + 1, Len(tid))) :
        tid \in {t \in available_ids(ros) : WellFormed(t)}}

\* TR00<n+1>, n the largest number of the roster; TR001 without any
NextIdentifier(ros) ==
    IF RosterNumbers(ros) = {} THEN TR001
    ELSE TR00 \o ToStr(Max(RosterNumbers(ros)) + 1)

\* the roster after the step is the roster before it plus one entry for tid
AppendedOne(tid) ==
    /\ Len(roster') = Len(roster) + 1
    /\ roster'[Len(roster')]["Trainer ID"] = tid
    /\ \A i \in 1..Len(roster) : roster'[i] = roster[i]

(* C17: a run in new-trainer mode with a blank identifier and a name, a
   department and an email works with the identifier TR00<n+1>, n being the
   largest number among the roster identifiers of the form TR00<digits>
   (TR001 when there is none); the identifier is not in the roster before the
   run, and the run appends one roster entry carrying it and leaves the
   entries there were as they are.  When one of the three fields is empty the
   roster stays as it is. *)
C17_GeneratedIdentifier ==
    [][button' = "" /\ EvaluatorSession /\ budget' < budget =>
       \A typed \in {t \in TypedNewIds : Strip(t) = EmptyStr},
          f \in TypedFields :
          (\E role \in EvaluatorRoles :
              \E ad \in FormInputs(NewTrainer(roster, typed, f.name,
                                              f.department, f.email)) :
                 NewTrainerRun(typed, f, role, ad))
          => IF f.name # "" /\ f.department # "" /\ f.email # ""
             THEN /\ trainer_id' = NextIdentifier(roster)
                  /\ trainer_id' \notin available_ids(roster)
                  /\ AppendedOne(trainer_id')
             ELSE roster' = roster]_vars

-----------------------------------------------------------------------------
(* C18: the record of an accepted Submit carries the flag of exactly one
   level, the first in the order 1, 2, 3 that is not both jointly QUALIFIED
   and marked by two usernames at least; the flags of the other levels are
   unset in the record, also when their forms were filled in; when all three
   levels are closed the record carries no level flag. *)
C18_OneLevelPerRecord ==
    Saved =>
        /\ FlagsWritten = FirstUnclosed
        /\ Cardinality(FlagsWritten) <= 1
        /\ \A level \in Range(levels) :
              IF level \in FirstUnclosed
              THEN LastStored[level] \in {"QUALIFIED", "NOT QUALIFIED"}
              ELSE LastStored[level] = Blank

\* LEVEL #2 awaits its second evaluator and is the level recorded, while the
\* form of LEVEL #3 was filled in and is not in the record
C18_Witness ==
    /\ Saved
    /\ FlagsWritten = {"LEVEL #2"}
    /\ "LEVEL #3" \in DOMAIN assessment_data
    /\ LastStored["LEVEL #3"] = Blank

\* all three levels are closed: a record without any level flag is appended
C18_WitnessAllClosed ==
    /\ Saved
    /\ \A level \in Range(levels) : ClosedBefore(level)
    /\ FlagsWritten = {}
    /\ Len(csv) = Len(df_main) + 1

-----------------------------------------------------------------------------
\* the usernames that marked the level QUALIFIED for trainer tid in the store
StoredMarkers(tid, level) ==
    {StoredRecords[j]["Evaluator Username"] :
        j \in QualifiedMarks(StoredRecords, tid, level)}

(* C19: from a store without QUALIFIED marks, with every record submitted
   through the Evaluator login, whose username is always omotec1: no level of
   any trainer is marked QUALIFIED by more than one username; every submitted
   record carries a LEVEL #1 flag and no other level flag; LEVEL #2 and
   LEVEL #3 are never signed off by both roles; and once LEVEL #1 has QUALIFIED
   marks of both roles its form is not offered and every later submission for
   the trainer records LEVEL #1 as NOT QUALIFIED. *)
C19_SingleEvaluatorStuckAtLevel1 ==
    /\ \A i \in 1..Len(csv) :
          /\ StoredRecords[i]["Evaluator Username"] \in {"omotec1", Blank}
          /\ StoredRecords[i]["LEVEL #2"] = Blank
          /\ StoredRecords[i]["LEVEL #3"] = Blank
          /\ \A level \in Range(levels) :
                Cardinality(
                    StoredMarkers(StoredRecords[i]["Trainer ID"], level)) <= 1
          /\ ~SignedOffByBoth(StoredRecords, StoredRecords[i]["Trainer ID"],
                              "LEVEL #2")
          /\ ~SignedOffByBoth(StoredRecords, StoredRecords[i]["Trainer ID"],
                              "LEVEL #3")
    /\ (FormsShown /\ trainer_id # EmptyStr) =>
          \A level \in Range(levels) : submissions[SubKey(level)] <= 1
    /\ Saved => FlagsWritten = {"LEVEL #1"}
    /\ (FormsShown /\ SignedOffByBoth(df_main, trainer_id, "LEVEL #1")) =>
          /\ "LEVEL #1" \notin DOMAIN assessment_data
          /\ Saved => LastStored["LEVEL #1"] = "NOT QUALIFIED"

\* omotec1 has signed LEVEL #1 off in both roles and submits once more, with
\* the form of LEVEL #2 filled in as QUALIFIED
C19_Witness ==
    /\ Saved
    /\ SignedOffByBoth(df_main, trainer_id, "LEVEL #1")
    /\ submissions["LEVEL #1_submissions"] = 1
    /\ "LEVEL #2" \in DOMAIN assessment_data
    /\ assessment_data["LEVEL #2"].level_status = "QUALIFIED"
    /\ LastStored["LEVEL #1"] = "NOT QUALIFIED"
    /\ LastStored["LEVEL #2"] = Blank

-----------------------------------------------------------------------------
(* C20: the thresholds of a level are applied only when, in the records
   loaded before the submission, two usernames at least have marked the level
   QUALIFIED for the trainer: a flag submitted as QUALIFIED for a level with
   count 0 or 1 is stored as QUALIFIED, without a warning, whatever the number
   of historical records, the average and the manager referral are; and a
   flag submitted as QUALIFIED that is stored as NOT QUALIFIED has count 2 at
   least. *)
C20_ThresholdsOnlyFromCountTwo ==
    \A level \in Range(levels) :
        SubmittedQualified(level) =>
            /\ Cardinality(MarkingUsernames(level)) < 2
                  => /\ LastStored[level] = "QUALIFIED"
                     /\ Warning(level) \notin messages
            /\ (LastStored[level] # "QUALIFIED" \/ Warning(level) \in messages)
                  => Cardinality(MarkingUsernames(level)) >= 2

\* LEVEL #1, marked by one username so far, is submitted as QUALIFIED below
\* both of its thresholds and stored as QUALIFIED
C20_Witness ==
    /\ SubmittedQualified("LEVEL #1")
    /\ Cardinality(MarkingUsernames("LEVEL #1")) = 1
    /\ HistoricalRecords < L1MinCourses
    /\ assessment_data["LEVEL #1"].average < L1MinAverage
    /\ LastStored["LEVEL #1"] = "QUALIFIED"

\* LEVEL #1, marked by two usernames of one role, is submitted as QUALIFIED
\* below a threshold and stored as NOT QUALIFIED
C20_WitnessChecked ==
    /\ SubmittedQualified("LEVEL #1")
    /\ Cardinality(MarkingUsernames("LEVEL #1")) >= 2
    /\ LastStored["LEVEL #1"] = "NOT QUALIFIED"
    /\ Warning("LEVEL #1") \in messages

-----------------------------------------------------------------------------
(* C21: in a single session, a level of a trainer that is signed off by both
   roles stays signed off after every later step, also when a later record
   marks the level NOT QUALIFIED, and the number of usernames that marked a
   level QUALIFIED never decreases; the same holds of the joint status and
   the count that two successive runs for one trainer compute. *)
C21_JointStatusMonotonic ==
    [][/\ csv' # csv =>
             LET Cell(file, i, c) == Get(file[i], c, Missing(c))
                 Marks(file, tid, level) ==
                     {i \in 1..Len(file) :
                         /\ file[i]["Trainer ID"] = tid
                         /\ Cell(file, i, level) = "QUALIFIED"}
                 Signed(file, tid, level) ==
                     \A role \in EvaluatorRoles :
                         \E i \in Marks(file, tid, level) :
                             Cell(file, i, "Evaluator Role") = role
                 Markers(file, tid, level) ==
                     {Cell(file, i, "Evaluator Username") :
                         i \in Marks(file, tid, level)}
             IN  \A tid \in {csv[i]["Trainer ID"] : i \in 1..Len(csv)} :
                 \A level \in Range(levels) :
                     /\ Signed(csv, tid, level) => Signed(csv', tid, level)
                     /\ Cardinality(Markers(csv', tid, level))
                           >= Cardinality(Markers(csv, tid, level))
       /\ (/\ FormsShown /\ FormsShown'
           /\ trainer_id # EmptyStr /\ trainer_id' = trainer_id)
              => \A level \in Range(levels) :
                    /\ level_status[level] = "QUALIFIED"
                          => level_status'[level] = "QUALIFIED"
                    /\ submissions'[SubKey(level)]
                          >= submissions[SubKey(level)]]_vars

\* LEVEL #1 was signed off by both roles, the run recorded it as NOT
\* QUALIFIED, and it is signed off all the same in the store the run left
C21_Witness ==
    /\ Saved
    /\ level_status["LEVEL #1"] = "QUALIFIED"
    /\ LastStored["LEVEL #1"] = "NOT QUALIFIED"
    /\ SignedOffByBoth(StoredRecords, trainer_id, "LEVEL #1")
    /\ Len(csv) > Len(df_main)

-----------------------------------------------------------------------------
\* the typed triples the login form accepts in the present state
Accepted ==
    {<<in.role, in.username, in.password>> :
        in \in {t \in TypedLogins :
                   ValidCredentials(t.role, t.username, t.password)}}

(* C22: the evaluator accounts have no effect on who can log in: in every
   state, whatever accounts were added, edited or deleted, the triples the
   login form accepts are the three fixed ones, no step changes them, and a
   login step logs the session in exactly when the typed triple is one of
   the three, also when the typed username and password are those of a
   stored account. *)
C22_StoreNotUsedByLogin ==
    [][/\ Accepted = FixedTriples
       /\ Accepted' = Accepted
       /\ button' = "Login" => \A in \in TypedLogins :
             Login(in.role, in.username, in.password)
                 => (LoggedIn' <=>
                        <<in.role, in.username, in.password>> \in FixedTriples)]_vars

\* the account ann was added with password pw1 in this behaviour, the
\* administrator logged out, and the login that followed was refused
C22_Witness ==
    /\ button = "Login"
    /\ ~LoggedIn
    /\ "Invalid Login Credentials" \in messages
    /\ \E i \in 1..Len(evaluators) :
          /\ evaluators[i]["username"] = "ann"
          /\ evaluators[i]["password_hash"] = hash_password("pw1")
          /\ evaluators[i]["created_at"] \in {Now(b) : b \in 1..MaxAdminRuns}

-----------------------------------------------------------------------------
\* the three keys a login sets
LoginKeys == {"logged_in", "role", "logged_user"}

\* the three files
stores == <<csv_exists, csv, roster, evaluators>>

(* C23: the Logout button of a dashboard removes logged_in, role and
   logged_user from the session and the run that follows shows the login
   form; a session that is not logged in is shown the login form only, and
   from it no step writes a store or shows the evaluator, viewer or admin
   section, except a login with one of the three fixed triples. *)
C23_LogoutEndsAccess ==
    [][/\ button' = "Logout" =>
             /\ DOMAIN session_state' \cap LoginKeys = {}
             /\ DOMAIN session_state' = DOMAIN session_state \ LoginKeys
             /\ page' = "login"
             /\ stores' = stores
       /\ ~LoggedIn' => page' = "login"
       /\ ~LoggedIn =>
             \/ /\ ~LoggedIn'
                /\ page' = "login"
                /\ stores' = stores
             \/ /\ \E t \in FixedTriples : Login(t[1], t[2], t[3])
                /\ LoggedIn'
                /\ roster' = roster
                /\ evaluators' = evaluators]_vars

\* the administrator opened a section and logged out, and the login that
\* followed was refused: the login form is shown and the stores are as the
\* administrator left them
C23_Witness ==
    /\ button = "Login"
    /\ "Invalid Login Credentials" \in messages
    /\ "admin_section" \in DOMAIN session_state
    /\ ~LoggedIn
    /\ page = "login"

\* an evaluator submitted a record, logged out and logged in again
C23_WitnessBack ==
    /\ button = "Login"
    /\ LoggedIn
    /\ page = "evaluator"
    /\ \E i \in 1..Len(csv) : StoredRecords[i]["Evaluator Username"] = "omotec1"

=============================================================================
